---- MODULE Spec2Model ----
(***************************************************************************)
(* Model of roster_compare.py: a straight-line script that fetches the     *)
(* Utah roster of two seasons, extracts the forwards' and goalies' names,  *)
(* and prints a set comparison of the two seasons.                         *)
(*                                                                         *)
(* Strings that the script compares or concatenates (player names) are     *)
(* sequences of code points; Python orders str values by code point.       *)
(* A printed line is a record: `at' is the source line of the print call,  *)
(* `fmt' its f-string, and `p' / `len' the value interpolated into it.     *)
(***************************************************************************)
EXTENDS Integers, Sequences, FiniteSets, TLC

VARIABLES pc, reqs, season_24, season_25, fwd_24, fwd_25, g_24, g_25, out, err

vars == <<pc, reqs, season_24, season_25, fwd_24, fwd_25, g_24, g_25, out, err>>

----------------------------------------------------------------------------
(* Bounds of the input family *)

\* number of well-formed forward records the API's catalogue holds
NumFwd == 6
\* number of well-formed goalie records the API's catalogue holds
NumGoalies == 2

(* Program constants *)

\* the slice bound of line 27 and the subtrahend of line 29
TruncateAt == 5
\* the " " between the two name parts in the f-string of line 15
SPACE == 32

SEASON_A == "20242025"
SEASON_B == "20252026"

----------------------------------------------------------------------------
(* Values *)

\* a name bound to nothing yet (the script has not reached its assignment)
Unset == [type |-> "unset"]
\* r.json() of a body that is a JSON array
JsonList == [type |-> "list"]
\* r.json() of a body that is a JSON object
JsonDict(items) == [type |-> "dict", items |-> items]

Player(first, last) ==
    [firstName |-> [default |-> first], lastName |-> [default |-> last]]

\* a record of the array whose lastName has no "default" locale
BadRecord == [firstName |-> [default |-> <<66>>], lastName |-> [fr |-> <<97>>]]

FirstOf(i) == IF i % 3 = 0 THEN <<97 + i>> ELSE <<65 + ((5 * i) % 11)>>
LastOf(i) == IF i = 1 THEN <<98, SPACE, 99>> ELSE <<97 + (i % 3)>>

FwdCatalog == [i \in 1..NumFwd |-> Player(FirstOf(i), LastOf(i))]
\* another person whose rendered name equals that of FwdCatalog[1]
FwdAlias == Player(FirstOf(1) \o <<SPACE, 98>>, <<99>>)

GoalieCatalog == [i \in 1..NumGoalies |-> Player(<<90 - i>>, <<111>>)]

\* the runs of a catalogue that start at its first or end at its last record
EndRuns(cat) ==
    {SubSeq(cat, 1, j) : j \in 0..Len(cat)}
    \cup {SubSeq(cat, i, Len(cat)) : i \in 1..Len(cat)}

\* what a roster document may hold under one position-group key: nothing
\* (the key is absent), a run of the catalogue, a list with a malformed
\* record, or one of the lists in `more'
GroupOptions(cat, more) ==
    {[present |-> TRUE, list |-> w] : w \in EndRuns(cat) \cup more}
    \cup {[present |-> FALSE, list |-> <<>>],
          [present |-> TRUE, list |-> <<cat[1], BadRecord>>]}

MkDoc(f, g) ==
    [k \in (IF f.present THEN {"forwards"} ELSE {})
           \cup (IF g.present THEN {"goalies"} ELSE {})
       |-> IF k = "forwards" THEN f.list ELSE g.list]

Docs ==
    {MkDoc(f, g) : f \in GroupOptions(FwdCatalog, {FwdCatalog \o <<FwdAlias>>}),
                   g \in GroupOptions(GoalieCatalog, {})}

\* an error object, as a server sends with an error status
ErrorDoc == [k \in {} |-> <<>>]

\* what the server may answer: status 0 stands for no answer at all
Responses ==
    {[status |-> 0, body |-> "none"]}
    \cup {[status |-> s, body |-> b] :
             s \in {200, 404}, b \in {"html", "array"}}
    \cup {[status |-> 404, body |-> "object", doc |-> ErrorDoc]}
    \cup {[status |-> 200, body |-> "object", doc |-> d] : d \in Docs}

----------------------------------------------------------------------------
(* Pure functions *)

\* str.__lt__: code-point order, a proper prefix is smaller
RECURSIVE LexLess(_, _)
LexLess(a, b) ==
    IF b = <<>> THEN FALSE
    ELSE IF a = <<>> THEN TRUE
    ELSE IF a[1] # b[1] THEN a[1] < b[1]
    ELSE LexLess(Tail(a), Tail(b))

\* a sort that orders descending
Sorted_Desc(s) ==
    [i \in 1..Cardinality(s) |->
        CHOOSE x \in s : Cardinality({y \in s : LexLess(x, y)}) = i - 1]

\* sorted(s) of a set of strings: the element at index i has i - 1 smaller
Sorted(s) ==
    [i \in 1..Cardinality(s) |->
        CHOOSE x \in s : Cardinality({y \in s : LexLess(y, x)}) = i - 1]

\* a difference that subtracts nothing
Diff_KeepAll(a, b) == a

\* set difference a - b
Diff(a, b) == a \ b
\* set intersection a & b
Inter(a, b) == a \cap b

\* a slice that ends one element early
Heads_Short(s, k) ==
    IF Cardinality(s) < k THEN {s}
    ELSE {h \in SUBSET s : Cardinality(h) = k - 1}

\* list(s)[:k]: the elements a set enumerates first; the enumeration order
\* of a set of str depends on the process's hash seed, so any k elements
Heads(s, k) ==
    IF Cardinality(s) <= k THEN {s}
    ELSE {h \in SUBSET s : Cardinality(h) = k}

WellFormed(p) ==
    /\ "firstName" \in DOMAIN p
    /\ "default" \in DOMAIN p.firstName
    /\ "lastName" \in DOMAIN p
    /\ "default" \in DOMAIN p.lastName

\* f"{p['firstName']['default']} {p['lastName']['default']}"
PlayerName(p) == p.firstName.default \o <<SPACE>> \o p.lastName.default

\* season.get(key, [])
DictGet(items, key) == IF key \in DOMAIN items THEN items[key] ELSE <<>>

\* an extraction that subscripts the document, season[key]
ExtractNames_Strict(season, key) ==
    IF season.type # "dict" THEN [err |-> "TypeError", names |-> {}]
    ELSE IF key \notin DOMAIN season.items THEN [err |-> "KeyError", names |-> {}]
    ELSE LET l == season.items[key] IN
         IF \E i \in 1..Len(l) : ~WellFormed(l[i])
         THEN [err |-> "KeyError", names |-> {}]
         ELSE [err |-> "", names |-> {PlayerName(l[i]) : i \in 1..Len(l)}]

\* an extraction that skips the records it cannot read
ExtractNames_SkipBad(season, key) ==
    IF season.type # "dict" THEN [err |-> "AttributeError", names |-> {}]
    ELSE LET l == DictGet(season.items, key) IN
         [err |-> "",
          names |-> {PlayerName(l[i]) : i \in {j \in 1..Len(l) : WellFormed(l[j])}}]

\* the set comprehension of lines 15, 16, 33, 34
ExtractNames(season, key) ==
    IF season.type # "dict" THEN [err |-> "AttributeError", names |-> {}]
    ELSE LET l == DictGet(season.items, key) IN
         IF \E i \in 1..Len(l) : ~WellFormed(l[i])
         THEN [err |-> "KeyError", names |-> {}]
         ELSE [err |-> "", names |-> {PlayerName(l[i]) : i \in 1..Len(l)}]

\* get_roster on a given answer of the server
GetRoster(resp) ==
    IF resp.status = 0 THEN [err |-> "ConnectionError", value |-> Unset]
    ELSE IF resp.body = "html" THEN [err |-> "JSONDecodeError", value |-> Unset]
    ELSE IF resp.body = "array" THEN [err |-> "", value |-> JsonList]
    ELSE [err |-> "", value |-> JsonDict(resp.doc)]

Line(at, fmt) == [at |-> at, fmt |-> fmt]
CountLine(at, fmt, n) == [at |-> at, fmt |-> fmt, len |-> n]
NameLines(at, fmt, names) ==
    [i \in 1..Len(names) |-> [at |-> at, fmt |-> fmt, p |-> names[i]]]

----------------------------------------------------------------------------
(* The script *)

Init ==
    /\ pc = "fetch_24"
    /\ reqs = <<>>
    /\ season_24 = Unset
    /\ season_25 = Unset
    /\ fwd_24 = {}
    /\ fwd_25 = {}
    /\ g_24 = {}
    /\ g_25 = {}
    /\ out = <<>>
    /\ err = ""

\* line 8
FetchSeason24 ==
    /\ pc = "fetch_24"
    /\ \E resp \in Responses :
         LET r == GetRoster(resp) IN
         /\ reqs' = Append(reqs, [season |-> SEASON_A, status |-> resp.status])
         /\ season_24' = r.value
         /\ err' = r.err
         /\ pc' = IF r.err = "" THEN "fetch_25" ELSE "failed"
    /\ UNCHANGED <<season_25, fwd_24, fwd_25, g_24, g_25, out>>

\* line 9
FetchSeason25 ==
    /\ pc = "fetch_25"
    /\ \E resp \in Responses :
         LET r == GetRoster(resp) IN
         /\ reqs' = Append(reqs, [season |-> SEASON_B, status |-> resp.status])
         /\ season_25' = r.value
         /\ err' = r.err
         /\ pc' = IF r.err = "" THEN "banner" ELSE "failed"
    /\ UNCHANGED <<season_24, fwd_24, fwd_25, g_24, g_25, out>>

\* a banner printed as the script starts, before the fetches
PrintBanner_First ==
    /\ pc = "fetch_24"
    /\ out = <<>>
    /\ out' = out \o <<Line(11, "\n=== UTAH ROSTER COMPARISON ===\n"),
                       Line(14, "FORWARDS:")>>
    /\ UNCHANGED <<pc, reqs, season_24, season_25, fwd_24, fwd_25, g_24, g_25, err>>

\* lines 11, 14
PrintBanner ==
    /\ pc = "banner"
    /\ out' = out \o <<Line(11, "\n=== UTAH ROSTER COMPARISON ===\n"),
                       Line(14, "FORWARDS:")>>
    /\ pc' = "fwd_extract"
    /\ UNCHANGED <<reqs, season_24, season_25, fwd_24, fwd_25, g_24, g_25, err>>

\* lines 15, 16
ExtractForwards ==
    /\ pc = "fwd_extract"
    /\ LET a == ExtractNames(season_24, "forwards")
           b == ExtractNames(season_25, "forwards")
       IN  /\ fwd_24' = a.names
           /\ fwd_25' = IF a.err = "" THEN b.names ELSE {}
           /\ err' = IF a.err # "" THEN a.err ELSE b.err
           /\ pc' = IF a.err = "" /\ b.err = "" THEN "fwd_only" ELSE "failed"
    /\ UNCHANGED <<reqs, season_24, season_25, g_24, g_25, out>>

\* lines 18-20
PrintForwardsOnly ==
    /\ pc = "fwd_only"
    /\ out' = out
          \o <<CountLine(18, "\n24-25 Only ({len}):", Cardinality(Diff(fwd_24, fwd_25)))>>
          \o NameLines(20, "  - {p}", Sorted(Diff(fwd_24, fwd_25)))
    /\ pc' = "fwd_new"
    /\ UNCHANGED <<reqs, season_24, season_25, fwd_24, fwd_25, g_24, g_25, err>>

\* lines 22-24
PrintForwardsNew ==
    /\ pc = "fwd_new"
    /\ out' = out
          \o <<CountLine(22, "\n25-26 New ({len}):", Cardinality(Diff(fwd_25, fwd_24)))>>
          \o NameLines(24, "  + {p}", Sorted(Diff(fwd_25, fwd_24)))
    /\ pc' = "fwd_common"
    /\ UNCHANGED <<reqs, season_24, season_25, fwd_24, fwd_25, g_24, g_25, err>>

\* lines 26-29
PrintForwardsCommon ==
    /\ pc = "fwd_common"
    /\ \E head \in Heads(Inter(fwd_24, fwd_25), TruncateAt) :
         out' = out
          \o <<CountLine(26, "\nCommon ({len}):", Cardinality(Inter(fwd_24, fwd_25)))>>
          \o NameLines(28, "    {p}", Sorted(head))
          \o <<CountLine(29, "    ... and {len} more",
                         Cardinality(Inter(fwd_24, fwd_25)) - TruncateAt)>>
    /\ pc' = "g_header"
    /\ UNCHANGED <<reqs, season_24, season_25, fwd_24, fwd_25, g_24, g_25, err>>

\* line 32
PrintGoaliesHeader ==
    /\ pc = "g_header"
    /\ out' = Append(out, Line(32, "\n\nGOALIES:"))
    /\ pc' = "g_extract"
    /\ UNCHANGED <<reqs, season_24, season_25, fwd_24, fwd_25, g_24, g_25, err>>

\* lines 33, 34
ExtractGoalies ==
    /\ pc = "g_extract"
    /\ LET a == ExtractNames(season_24, "goalies")
           b == ExtractNames(season_25, "goalies")
       IN  /\ g_24' = a.names
           /\ g_25' = IF a.err = "" THEN b.names ELSE {}
           /\ err' = IF a.err # "" THEN a.err ELSE b.err
           /\ pc' = IF a.err = "" /\ b.err = "" THEN "g_only" ELSE "failed"
    /\ UNCHANGED <<reqs, season_24, season_25, fwd_24, fwd_25, out>>

\* lines 36-38
PrintGoaliesOnly ==
    /\ pc = "g_only"
    /\ out' = out
          \o <<Line(36, "\n24-25 Only:")>>
          \o NameLines(38, "  - {p}", Sorted(Diff(g_24, g_25)))
    /\ pc' = "g_new"
    /\ UNCHANGED <<reqs, season_24, season_25, fwd_24, fwd_25, g_24, g_25, err>>

\* lines 40-42
PrintGoaliesNew ==
    /\ pc = "g_new"
    /\ out' = out
          \o <<Line(40, "\n25-26 New:")>>
          \o NameLines(42, "  + {p}", Sorted(Diff(g_25, g_24)))
    /\ pc' = "g_common"
    /\ UNCHANGED <<reqs, season_24, season_25, fwd_24, fwd_25, g_24, g_25, err>>

\* lines 44-46, then the interpreter exits with status 0
PrintGoaliesCommon ==
    /\ pc = "g_common"
    /\ out' = out
          \o <<Line(44, "\nCommon:")>>
          \o NameLines(46, "    {p}", Sorted(Inter(g_24, g_25)))
    /\ pc' = "done"
    /\ UNCHANGED <<reqs, season_24, season_25, fwd_24, fwd_25, g_24, g_25, err>>

Next ==
    \/ FetchSeason24
    \/ FetchSeason25
    \/ PrintBanner
    \/ ExtractForwards
    \/ PrintForwardsOnly
    \/ PrintForwardsNew
    \/ PrintForwardsCommon
    \/ PrintGoaliesHeader
    \/ ExtractGoalies
    \/ PrintGoaliesOnly
    \/ PrintGoaliesNew
    \/ PrintGoaliesCommon

Spec == Init /\ [][Next]_vars

----------------------------------------------------------------------------
(* What the report shows *)

Idx == 1..Len(out)
LinesAt(n) == {i \in Idx : out[i].at = n}
Printed(n) == {out[i].p : i \in LinesAt(n)}
AtSeq == [i \in Idx |-> out[i].at]

BothFetched == season_24.type # "unset" /\ season_25.type # "unset"
BothDicts == season_24.type = "dict" /\ season_25.type = "dict"
\* the forwards' Common block (lines 26-29) has been printed
FwdCommonPrinted == LinesAt(26) # {}
FwdExtracted == LinesAt(18) # {} \/ pc = "fwd_only"
GoaliesExtracted == pc \in {"g_only", "g_new", "g_common", "done"}

FwdCommon == fwd_24 \cap fwd_25

\* the records a document lists under a key, and the names of the readable ones
Records(season, key) ==
    IF season.type = "dict" /\ key \in DOMAIN season.items
    THEN {season.items[key][i] : i \in 1..Len(season.items[key])}
    ELSE {}
NamesIn(season, key) ==
    {PlayerName(r) : r \in {q \in Records(season, key) : WellFormed(q)}}
MissingKey(season, key) ==
    season.type = "dict" /\ key \notin DOMAIN season.items
HasBad(season, key) == \E r \in Records(season, key) : ~WellFormed(r)
Clean(season) ==
    season.type = "dict" /\ \A k \in {"forwards", "goalies"} : ~HasBad(season, k)

\* the k smallest elements of a set of strings
Smallest(s, k) == {x \in s : Cardinality({y \in s : LexLess(y, x)}) < k}

----------------------------------------------------------------------------
(* Claims *)

\* C1: for the forwards, when the common set has at most 5 names, every
\* common name is printed and no "... and <k> more" line is emitted.
C1_NoMoreLineWhenShort ==
    (FwdCommonPrinted /\ Cardinality(FwdCommon) <= TruncateAt)
        => (Printed(28) = FwdCommon /\ LinesAt(29) = {})

\* C2: for the forwards, when the common set has more than 5 names, the
\* names printed under Common are the 5 smallest of the common set.
C2_PrintsFiveSmallest ==
    (FwdCommonPrinted /\ Cardinality(FwdCommon) > TruncateAt)
        => Printed(28) = Smallest(FwdCommon, TruncateAt)

\* C3: a fetch answered with a non-2xx status ends the run in failure, and
\* no report line is printed.
C3_Non2xxIsFatal ==
    (\E i \in 1..Len(reqs) : reqs[i].status # 0 /\ reqs[i].status \notin 200..299)
        => (pc = "failed" /\ out = <<>>)

\* C4: for each position group the reported sets, only-in-first = A - B,
\* only-in-second = B - A and common = A & B, are pairwise disjoint and
\* their union is A | B.
C4_Partition ==
    /\ FwdCommonPrinted =>
         LET o == Printed(20)
             n == Printed(24)
         IN  /\ o = fwd_24 \ fwd_25
             /\ n = fwd_25 \ fwd_24
             /\ Printed(28) \subseteq FwdCommon
             /\ o \cap n = {} /\ o \cap Printed(28) = {} /\ n \cap Printed(28) = {}
             /\ o \cup n \cup FwdCommon = fwd_24 \cup fwd_25
             /\ \A i \in LinesAt(18) : out[i].len = Cardinality(o)
             /\ \A i \in LinesAt(22) : out[i].len = Cardinality(n)
             /\ \A i \in LinesAt(26) :
                  out[i].len = Cardinality(fwd_24 \cup fwd_25)
                               - Cardinality(o) - Cardinality(n)
    /\ pc = "done" =>
         LET o == Printed(38)
             n == Printed(42)
             c == Printed(46)
         IN  /\ o = g_24 \ g_25
             /\ n = g_25 \ g_24
             /\ c = g_24 \cap g_25
             /\ o \cap n = {} /\ o \cap c = {} /\ n \cap c = {}
             /\ o \cup n \cup c = g_24 \cup g_25

C4_Witness ==
    /\ pc = "done"
    /\ Printed(20) # {} /\ Printed(24) # {} /\ Printed(28) # {}
    /\ Printed(38) # {} /\ Printed(42) # {}

\* C5: every sub-list header (Only, New, Common; forwards and goalies)
\* carries a count, the cardinality of the set it heads.
C5_HeadersCarryCount ==
    /\ \A i \in LinesAt(18) : "len" \in DOMAIN out[i] /\ out[i].len = Cardinality(fwd_24 \ fwd_25)
    /\ \A i \in LinesAt(22) : "len" \in DOMAIN out[i] /\ out[i].len = Cardinality(fwd_25 \ fwd_24)
    /\ \A i \in LinesAt(26) : "len" \in DOMAIN out[i] /\ out[i].len = Cardinality(fwd_24 \cap fwd_25)
    /\ \A i \in LinesAt(36) : "len" \in DOMAIN out[i] /\ out[i].len = Cardinality(g_24 \ g_25)
    /\ \A i \in LinesAt(40) : "len" \in DOMAIN out[i] /\ out[i].len = Cardinality(g_25 \ g_24)
    /\ \A i \in LinesAt(44) : "len" \in DOMAIN out[i] /\ out[i].len = Cardinality(g_24 \cap g_25)

\* C6: for the forwards, when the common set has n > 5 names, the Common
\* header shows n, exactly 5 name lines follow it, and then exactly one line
\* "... and n-5 more".
C6_Truncation ==
    (FwdCommonPrinted /\ Cardinality(FwdCommon) > TruncateAt) =>
        /\ Cardinality(LinesAt(26)) = 1
        /\ \A h \in LinesAt(26) :
             /\ out[h].len = Cardinality(FwdCommon)
             /\ Len(out) >= h + TruncateAt + 1
             /\ \A k \in 1..TruncateAt : out[h + k].at = 28
             /\ out[h + TruncateAt + 1].at = 29
             /\ out[h + TruncateAt + 1].len = Cardinality(FwdCommon) - TruncateAt
        /\ Cardinality(LinesAt(28)) = TruncateAt
        /\ Cardinality(Printed(28)) = TruncateAt
        /\ Printed(28) \subseteq FwdCommon
        /\ Cardinality(LinesAt(29)) = 1

C6_Witness ==
    pc = "done" /\ Cardinality(FwdCommon) > TruncateAt

\* C7: within every sub-list of the report the name lines are in ascending
\* code-point order and no name is printed twice.
C7_SortedNoDuplicates ==
    \A i \in Idx :
        (i < Len(out) /\ out[i].at = out[i + 1].at
                      /\ out[i].at \in {20, 24, 28, 38, 42, 46})
            => LexLess(out[i].p, out[i + 1].p)

C7_Witness ==
    /\ pc = "done"
    /\ Cardinality(LinesAt(28)) = TruncateAt
    /\ Cardinality(FwdCommon) > TruncateAt
    /\ Cardinality(LinesAt(38)) >= 2

\* C8: a document without the "forwards" or the "goalies" key gives the
\* empty set for that group and does not fail the run: with every record
\* well-formed the run goes on to completion, and for that group the report
\* shows every name of the other season as Only / New and none as Common.
C8_MissingKeyIsEmpty ==
    \A key \in {"forwards", "goalies"} :
        /\ (BothFetched /\ MissingKey(season_24, key)) =>
            /\ (Clean(season_24) /\ Clean(season_25)) =>
                   (pc # "failed" /\ (pc # "done" => ENABLED Next))
            /\ (key = "forwards" /\ FwdExtracted) => fwd_24 = {}
            /\ (key = "goalies" /\ GoaliesExtracted) => g_24 = {}
            /\ (key = "forwards" /\ FwdCommonPrinted) =>
                   /\ Printed(20) = {}
                   /\ Printed(24) = NamesIn(season_25, key)
                   /\ Printed(28) = {}
            /\ (key = "goalies" /\ pc = "done") =>
                   /\ Printed(38) = {}
                   /\ Printed(42) = NamesIn(season_25, key)
                   /\ Printed(46) = {}
        /\ (BothFetched /\ MissingKey(season_25, key)) =>
            /\ (Clean(season_24) /\ Clean(season_25)) =>
                   (pc # "failed" /\ (pc # "done" => ENABLED Next))
            /\ (key = "forwards" /\ FwdExtracted) => fwd_25 = {}
            /\ (key = "goalies" /\ GoaliesExtracted) => g_25 = {}
            /\ (key = "forwards" /\ FwdCommonPrinted) =>
                   /\ Printed(20) = NamesIn(season_24, key)
                   /\ Printed(24) = {}
                   /\ Printed(28) = {}
            /\ (key = "goalies" /\ pc = "done") =>
                   /\ Printed(38) = NamesIn(season_24, key)
                   /\ Printed(42) = {}
                   /\ Printed(46) = {}

C8_Witness ==
    /\ pc = "done"
    /\ MissingKey(season_25, "forwards")
    /\ MissingKey(season_24, "goalies")
    /\ Cardinality(Printed(20)) >= 2
    /\ Printed(42) # {}

\* C9: a player record without the nested name field, in either group of
\* either season, ends the run in failure and never in success; no name is
\* substituted for it; and what has been printed by then is the start of the
\* report: the banner and the forwards heading for a bad forward record, the
\* whole forwards block and the goalies heading, with no goalie name, for a
\* bad goalie record.
C9_BadRecordIsFatal ==
    LET bad(key) == HasBad(season_24, key) \/ HasBad(season_25, key)
        goodNames == UNION {NamesIn(s, k) : s \in {season_24, season_25},
                                              k \in {"forwards", "goalies"}}
    IN  /\ (BothFetched /\ (bad("forwards") \/ bad("goalies"))) =>
               (pc # "done" /\ (pc # "failed" => ENABLED Next))
        /\ \A i \in Idx : "p" \in DOMAIN out[i] => out[i].p \in goodNames
        /\ (pc = "failed" /\ BothDicts /\ bad("forwards")) =>
               (err = "KeyError" /\ AtSeq = <<11, 14>>)
        /\ (pc = "failed" /\ BothDicts /\ ~bad("forwards") /\ bad("goalies")) =>
               /\ err = "KeyError"
               /\ LinesAt(18) # {} /\ LinesAt(22) # {} /\ FwdCommonPrinted
               /\ Printed(20) = NamesIn(season_24, "forwards") \ NamesIn(season_25, "forwards")
               /\ Printed(24) = NamesIn(season_25, "forwards") \ NamesIn(season_24, "forwards")
               /\ Len(out) >= 1 /\ out[Len(out)].at = 32
               /\ \A i \in Idx : out[i].at <= 32

C9_Witness ==
    /\ pc = "failed"
    /\ BothDicts
    /\ ~HasBad(season_24, "forwards") /\ ~HasBad(season_25, "forwards")
    /\ HasBad(season_25, "goalies")
    /\ Printed(20) # {}

\* C10: the season-A fetch completes before the season-B fetch is issued,
\* which never is if the season-A fetch raises; no report line is printed
\* before both fetches have returned; and every line of the forwards block
\* is printed before any line of the goalies block.
C10_Order ==
    /\ Len(reqs) <= 2
    /\ Len(reqs) >= 1 => reqs[1].season = SEASON_A
    /\ Len(reqs) = 2 => (reqs[2].season = SEASON_B /\ season_24.type # "unset")
    /\ out # <<>> => (Len(reqs) = 2 /\ BothFetched)
    /\ \A i \in Idx : i < Len(out) => out[i].at <= out[i + 1].at

C10_Witness ==
    /\ pc = "done"
    /\ Len(reqs) = 2
    /\ LinesAt(20) # {} /\ LinesAt(46) # {}

====
